---------------------------- MODULE Spec2Model ----------------------------
(***************************************************************************)
(* Algebraic factorization of sum-of-products expressions: kernel          *)
(* extraction, kernel matrix, closed rectangles, profit, rectangle         *)
(* application, common-cube fallback and the synthesis driver.             *)
(*                                                                         *)
(* A Literal is a Python str, modelled as the sequence of its code points  *)
(* (so that str comparison is lexicographic comparison of the sequences).  *)
(* A Cube is a set of literals (frozenset), an Expr a set of cubes (set).  *)
(* Python lists are sequences; list and tuple indices are 1-based here     *)
(* (index i of the model is index i-1 of the code).                        *)
(***************************************************************************)
EXTENDS Integers, Sequences, FiniteSets, TLC

VARIABLES
    F0,         \* synthesize_by_rectangles: the argument F
    opts,       \* synthesize_by_rectangles: the keyword arguments
    pc,         \* position of the running call
    current_F,  \* synthesize.py:51
    defs,       \* synthesize.py:52
    history,    \* synthesize.py:53
    next_id,    \* synthesize.py:55
    it,         \* synthesize.py:57, the loop variable (iterations started)
    pairs,      \* synthesize.py:59
    KM,         \* synthesize.py:68
    rects,      \* synthesize.py:76
    best,       \* synthesize.py:119
    prof,       \* synthesize.py:125
    work,       \* synthesize.py:198
    seen,       \* synthesize.py:199
    depth,      \* synthesize.py:200
    outer,      \* the suspended outer call while a nested call (212) runs
    args,       \* arguments of a single library call (unit specifications)
    ret         \* what that call returned or raised

vars == <<F0, opts, pc, current_F, defs, history, next_id, it, pairs, KM,
          rects, best, prof, work, seen, depth, outer, args, ret>>

---------------------------------------------------------------------------
(* Literals, str ordering, str(int) *)

la == <<97>>
lb == <<98>>
lc == <<99>>
ld == <<100>>
le == <<101>>
lf == <<102>>
lg == <<103>>
lh == <<104>>
l1 == <<49>>
l2 == <<50>>
l3 == <<51>>
lt == <<116>>
lt1 == <<116, 49>>

Min(x, y) == IF x <= y THEN x ELSE y

Range(s) == {s[i] : i \in DOMAIN s}

\* Python's < on str: code points, lexicographic, a proper prefix is smaller.
StrLess(s, t) ==
    \E k \in 1..(Min(Len(s), Len(t)) + 1) :
        /\ \A i \in 1..(k - 1) : s[i] = t[i]
        /\ \/ (k = Len(s) + 1 /\ k <= Len(t))
           \/ (k <= Len(s) /\ k <= Len(t) /\ s[k] < t[k])

\* str(n) for n >= 0: the decimal digits, '0' = 48.
RECURSIVE IntToStr(_)
IntToStr(n) ==
    IF n < 10 THEN <<48 + n>> ELSE IntToStr(n \div 10) \o <<48 + (n % 10)>>

\* f"{node_prefix}{next_id}"
NodeName(node_prefix, id) == node_prefix \o IntToStr(id)

\* sorted(c) for a set of str
RECURSIVE SortedLits(_)
SortedLits(S) ==
    IF S = {} THEN <<>>
    ELSE LET m == CHOOSE x \in S : \A y \in S \ {x} : StrLess(x, y)
         IN  <<m>> \o SortedLits(S \ {m})

\* Python's < on tuples of str
TupLess(s, t) ==
    \E k \in 1..(Min(Len(s), Len(t)) + 1) :
        /\ \A i \in 1..(k - 1) : s[i] = t[i]
        /\ \/ (k = Len(s) + 1 /\ k <= Len(t))
           \/ (k <= Len(s) /\ k <= Len(t) /\ StrLess(s[k], t[k]))

canon_cube(c) == SortedLits(c)

\* the sort key (len(c), tuple(sorted(c))) on cubes
CubeKeyLess(c, d) ==
    \/ Cardinality(c) < Cardinality(d)
    \/ (Cardinality(c) = Cardinality(d) /\ TupLess(canon_cube(c), canon_cube(d)))

\* sorted(cubes, key=lambda c: (len(c), canon_cube(c)))
RECURSIVE SortedCubes(_)
SortedCubes(S) ==
    IF S = {} THEN <<>>
    ELSE LET m == CHOOSE x \in S : \A y \in S \ {x} : CubeKeyLess(x, y)
         IN  <<m>> \o SortedCubes(S \ {m})

\* canonical form of an expression: its cubes as sorted tuples, sorted by
\* (len, tuple)
canon_expr(e) ==
    LET sc == SortedCubes(e) IN [i \in 1..Len(sc) |-> canon_cube(sc[i])]

\* Python's < on tuples of tuples of str
CanonLess(s, t) ==
    \E k \in 1..(Min(Len(s), Len(t)) + 1) :
        /\ \A i \in 1..(k - 1) : s[i] = t[i]
        /\ \/ (k = Len(s) + 1 /\ k <= Len(t))
           \/ (k <= Len(s) /\ k <= Len(t) /\ TupLess(s[k], t[k]))

\* the sort key (len(ce), ce) on canonical expressions
CanonKeyLess(s, t) ==
    \/ Len(s) < Len(t)
    \/ (Len(s) = Len(t) /\ CanonLess(s, t))

RECURSIVE SortedCanon(_)
SortedCanon(S) ==
    IF S = {} THEN <<>>
    ELSE LET m == CHOOSE x \in S : \A y \in S \ {x} : CanonKeyLess(x, y)
         IN  <<m>> \o SortedCanon(S \ {m})

RECURSIVE SumOver(_, _)
\* sum(f[x] for x in S)
SumOver(S, f) ==
    IF S = {} THEN 0
    ELSE LET x == CHOOSE y \in S : TRUE IN f[x] + SumOver(S \ {x}, f)

Literals(e) == UNION e

_lit_cost_expr(e) == SumOver(e, [c \in e |-> Cardinality(c)])

\* A Python dict keeps insertion order (list(d.keys()) reads it): a dict is
\* the list of its <<key, value>> items in insertion order.
EmptyDict == <<>>
DictKeys(d) == [n \in DOMAIN d |-> d[n][1]]
HasKey(d, k) == \E n \in DOMAIN d : d[n][1] = k
DictGet(d, k) == d[CHOOSE n \in DOMAIN d : d[n][1] = k][2]
\* d[k] = v
DictSet(d, k, v) ==
    IF HasKey(d, k)
    THEN [n \in DOMAIN d |-> IF d[n][1] = k THEN <<k, v>> ELSE d[n]]
    ELSE Append(d, <<k, v>>)
RECURSIVE DictUpdateFrom(_, _, _)
DictUpdateFrom(d, e, n) ==
    IF n > Len(e) THEN d ELSE DictUpdateFrom(DictSet(d, e[n][1], e[n][2]), e, n + 1)
\* d.update(e)
DictUpdate(d, e) == DictUpdateFrom(d, e, 1)

---------------------------------------------------------------------------
(* kernel.py *)

RECURSIVE InterAll(_)
InterAll(S) ==
    LET c == CHOOSE x \in S : TRUE
    IN  IF S = {c} THEN c ELSE c \cap InterAll(S \ {c})

common_cube(expr) == IF expr = {} THEN {} ELSE InterAll(expr)

\* A slip: one common literal is let through
is_cube_free_but_one(expr) == Cardinality(common_cube(expr)) <= 1

is_cube_free(expr) == Cardinality(common_cube(expr)) = 0

\* A slip: the count of a literal starts at one
lit_count_from_one(expr) ==
    [lit \in Literals(expr) |-> 1 + Cardinality({c \in expr : lit \in c})]

\* lit_count[lit]: in how many cubes lit appears
lit_count(expr) ==
    [lit \in Literals(expr) |-> Cardinality({c \in expr : lit \in c})]

\* kernels.canon_expr: the cubes (frozensets) sorted by (len, sorted literals)
kernel_canon_expr(expr) == SortedCubes(expr)

RECURSIVE recurse(_, _, _)
RECURSIVE recurse_lits(_, _, _, _, _)

\* kernels.recurse(expr, co) with the list out (and the set seen, which holds
\* exactly the keys of out's pairs) passed in and returned.
recurse(expr, co, out) ==
    IF expr = {} THEN out
    ELSE LET key  == <<co, kernel_canon_expr(expr)>>
             seen_keys == {<<p[1], kernel_canon_expr(p[2])>> : p \in Range(out)}
             out1 == IF is_cube_free(expr) /\ key \notin seen_keys
                     THEN Append(out, <<co, expr>>)
                     ELSE out
         IN  recurse_lits(expr, co, SortedLits(Literals(expr)), 1, out1)

\* the loop "for lit, count in sorted(lit_count.items())" from position i
recurse_lits(expr, co, lits, i, out) ==
    IF i > Len(lits) THEN out
    ELSE LET lit      == lits[i]
             sub      == {c \in expr : lit \in c}
             quotient == {c \ {lit} : c \in sub}
             new_co   == co \cup {lit}
             out1     == recurse(quotient, new_co, out)
         IN  IF lit_count(expr)[lit] < 2
             THEN recurse_lits(expr, co, lits, i + 1, out)
             ELSE IF Len(out1) >= 0   \* out1 is computed before the loop goes on
             THEN recurse_lits(expr, co, lits, i + 1, out1)
             ELSE <<>>

kernels(F) == recurse(F, {}, <<>>)

---------------------------------------------------------------------------
(* matrix.py *)

\* A slip: the rows sorted with the largest key first
uniq_rows_descending(prs) ==
    LET up == SortedCubes({p[1] : p \in Range(prs)})
    IN  [i \in DOMAIN up |-> up[Len(up) + 1 - i]]

\* uniq_rows of build_kernel_matrix: the distinct co-kernels, sorted by
\* (size, literals)
uniq_rows(prs) == SortedCubes({p[1] : p \in Range(prs)})

\* build_kernel_matrix(pairs): prs is the list pairs, a list of <<co, k>>
build_kernel_matrix(prs) ==
    LET urows           == uniq_rows(prs)
        uniq_cols_canon == SortedCanon({canon_expr(p[2]) : p \in Range(prs)})
        row_index == [co \in Range(urows) |->
                        CHOOSE i \in DOMAIN urows : urows[i] = co]
        col_index == [ck \in Range(uniq_cols_canon) |->
                        CHOOSE j \in DOMAIN uniq_cols_canon : uniq_cols_canon[j] = ck]
        \* rep_kernel[ck]: the kernel of the first pair whose canonical form is ck
        rep_kernel == [ck \in Range(uniq_cols_canon) |->
                        LET first == CHOOSE n \in DOMAIN prs :
                                        /\ canon_expr(prs[n][2]) = ck
                                        /\ \A m \in 1..(n - 1) :
                                               canon_expr(prs[m][2]) # ck
                        IN  prs[first][2]]
        uniq_cols == [j \in DOMAIN uniq_cols_canon |-> rep_kernel[uniq_cols_canon[j]]]
        ones      == {<<row_index[p[1]], col_index[canon_expr(p[2])]>> :
                        p \in Range(prs)}
        m         == [i \in DOMAIN urows |->
                        [j \in DOMAIN uniq_cols |->
                            IF <<i, j>> \in ones THEN 1 ELSE 0]]
    IN  [rows |-> urows, cols |-> uniq_cols, M |-> m, ones |-> ones,
         row_index |-> row_index, col_index |-> col_index]

---------------------------------------------------------------------------
(* rectangles.py *)

Rectangle(rows, cols) == [rows |-> rows, cols |-> cols]
nrows(rect) == Cardinality(rect.rows)
ncols(rect) == Cardinality(rect.cols)
area(rect)  == nrows(rect) * ncols(rect)

\* A slip: a row is put in every column
_build_col_rows_every_column(km) ==
    [j \in 1..Len(km.cols) |-> {o[1] : o \in km.ones}]

\* col_rows[j] = rows i with (i, j) in km.ones
_build_col_rows(km) ==
    [j \in 1..Len(km.cols) |-> {i \in {o[1] : o \in km.ones} : <<i, j>> \in km.ones}]

\* A slip: a column is taken when it has some of the rows
_closure_cols_some_row(col_rows, rows) ==
    IF rows = {} THEN {}
    ELSE {j \in DOMAIN col_rows : rows \cap col_rows[j] # {}}

_closure_cols_from_rows(col_rows, rows) ==
    IF rows = {} THEN {}
    ELSE {j \in DOMAIN col_rows : rows \subseteq col_rows[j]}

\* record(rows, cols) of enumerate_closed_rectangles: out with the rectangle
\* appended when it is new and big enough (seen holds exactly out's keys)
record(out, rows, cols, min_rows, min_cols) ==
    LET rect == Rectangle(rows, cols)
    IN  IF rect \in Range(out) THEN out
        ELSE IF nrows(rect) >= min_rows /\ ncols(rect) >= min_cols
             THEN Append(out, rect)
             ELSE out

RECURSIVE dfs(_, _, _, _, _, _, _)
RECURSIVE dfs_loop(_, _, _, _, _, _, _, _, _)

\* dfs(start_col, current_cols, current_rows); current_cols is never read.
\* NoCap stands for max_rectangles=None.
NoCap == -1

dfs(col_rows, ncol, min_rows, min_cols, max_rectangles, st, out) ==
    IF max_rectangles # NoCap /\ Len(out) >= max_rectangles THEN out
    ELSE LET closed_cols == _closure_cols_from_rows(col_rows, st.current_rows)
             out1 == record(out, st.current_rows, closed_cols, min_rows, min_cols)
         IN  dfs_loop(col_rows, ncol, min_rows, min_cols, max_rectangles,
                      st.current_rows, closed_cols, st.start_col, out1)

\* the loop "for j in range(start_col, ncols)" of dfs from position j
dfs_loop(col_rows, ncol, min_rows, min_cols, max_rectangles, current_rows, closed_cols, j, out) ==
    IF j > ncol THEN out
    ELSE LET new_rows == current_rows \cap col_rows[j]
             out1 == dfs(col_rows, ncol, min_rows, min_cols, max_rectangles,
                         [start_col |-> j + 1, current_rows |-> new_rows], out)
         IN  IF j \in closed_cols \/ new_rows = {}
             THEN dfs_loop(col_rows, ncol, min_rows, min_cols, max_rectangles,
                           current_rows, closed_cols, j + 1, out)
             ELSE IF Len(out1) >= 0   \* out1 is computed before the loop goes on
             THEN dfs_loop(col_rows, ncol, min_rows, min_cols, max_rectangles,
                           current_rows, closed_cols, j + 1, out1)
             ELSE <<>>

\* dfs(j + 1, [j], col_rows[j]) of a seed column j goes on to a nested dfs:
\* some later column outside the closure shares a row with the seed
extends_seed(col_rows, j) ==
    \E j2 \in (j + 1)..Len(col_rows) :
        /\ j2 \notin _closure_cols_from_rows(col_rows, col_rows[j])
        /\ col_rows[j] \cap col_rows[j2] # {}

RECURSIVE seed_loop(_, _, _, _, _, _, _)
\* the loop "for j in range(ncols)" seeding the DFS from each column
seed_loop(col_rows, ncol, min_rows, min_cols, max_rectangles, j, out) ==
    IF j > ncol THEN out
    ELSE LET out1 == dfs(col_rows, ncol, min_rows, min_cols, max_rectangles,
                         [start_col |-> j + 1, current_rows |-> col_rows[j]], out)
         IN  IF col_rows[j] = {}
             THEN seed_loop(col_rows, ncol, min_rows, min_cols, max_rectangles,
                            j + 1, out)
             ELSE IF Len(out1) >= 0   \* out1 is computed before the loop goes on
             THEN seed_loop(col_rows, ncol, min_rows, min_cols, max_rectangles,
                            j + 1, out1)
             ELSE <<>>

enumerate_closed_rectangles(km, min_rows, min_cols, max_rectangles) ==
    seed_loop(_build_col_rows(km), Len(km.cols), min_rows, min_cols,
              max_rectangles, 1, <<>>)

\* T of rectangle_profit and apply_rectangle_once: union of the kernels of
\* the selected columns
_union_expr(exprs) == UNION exprs

\* A slip: the co-kernel is left out of the product
_multiply_cube_expr_without_co(co, e) == e

_multiply_cube_expr(co, e) == {co \cup c : c \in e}

\* A slip: the difference taken the wrong way round
rectangle_profit_negated(km, rect) ==
    LET R        == [i \in rect.rows |-> km.rows[i]]
        T        == UNION {km.cols[j] : j \in rect.cols}
        covered  == {R[i] \cup t : i \in rect.rows, t \in T}
        before   == SumOver(covered, [c \in covered |-> Cardinality(c)])
        def_cost == SumOver(rect.rows, [i \in rect.rows |-> Cardinality(R[i])])
        use_cost == SumOver(T, [t \in T |-> 1 + Cardinality(t)])
    IN  (def_cost + use_cost) - before

rectangle_profit(km, rect) ==
    LET R        == [i \in rect.rows |-> km.rows[i]]
        T        == UNION {km.cols[j] : j \in rect.cols}
        covered  == {R[i] \cup t : i \in rect.rows, t \in T}
        before   == SumOver(covered, [c \in covered |-> Cardinality(c)])
        def_cost == SumOver(rect.rows, [i \in rect.rows |-> Cardinality(R[i])])
        use_cost == SumOver(T, [t \in T |-> 1 + Cardinality(t)])
        after    == def_cost + use_cost
    IN  before - after

\* Python's > on the key tuples (prof, area, nrows, ncols)
KeyGreater(k, l) ==
    \E n \in 1..4 : (\A i \in 1..(n - 1) : k[i] = l[i]) /\ k[n] > l[n]

rect_key(km, r) == <<rectangle_profit(km, r), area(r), nrows(r), ncols(r)>>

\* An Optional value: None, or <<x>> for the value x
None == <<>>

RECURSIVE best_loop(_, _, _, _)
\* the loop of best_rectangle from position n, best so far b (or None)
best_loop(km, rectangles, n, b) ==
    IF n > Len(rectangles) THEN b
    ELSE LET r == rectangles[n]
         IN  IF b = None \/ KeyGreater(rect_key(km, r), rect_key(km, b[1]))
             THEN best_loop(km, rectangles, n + 1, <<r>>)
             ELSE best_loop(km, rectangles, n + 1, b)

best_rectangle(km, rectangles) == best_loop(km, rectangles, 1, None)

---------------------------------------------------------------------------
(* factor.py *)

\* the [:10] of the sample of missing cubes
SampleLen == 10

\* Subsets of S with exactly n elements
SubsetsOfSize(S, n) == {X \in SUBSET S : Cardinality(X) = n}

\* A slip: the sample is not cut to its first ten
sample_uncut(missing) == {missing}

\* sample = list(missing)[:10], the first ten cubes in the iteration order of
\* a set: any ten of them (all, if there are fewer)
sample_of(missing) ==
    SubsetsOfSize(missing, Min(SampleLen, Cardinality(missing)))

\* apply_rectangle_once(F, km, rect, new_node=..., strict=...): the set of
\* possible outcomes.  An outcome is a return (raised = "") or a raised
\* exception.
apply_rectangle_once(F, km, rect, new_node, strict) ==
    LET T        == _union_expr({km.cols[j] : j \in rect.cols})
        covered  == UNION {_multiply_cube_expr(km.rows[i], T) : i \in rect.rows}
        missing  == covered \ F
        removed  == covered \cap F
        newF     == (F \ removed) \cup {km.rows[i] \cup {new_node} : i \in rect.rows}
        raise(kind, n, sample) ==
            [raised |-> kind, n_missing |-> n, sample |-> sample,
             newF |-> {}, defs |-> EmptyDict, removed |-> {}]
    IN  IF rect.cols = {} THEN {raise("ValueError", 0, {})}
        ELSE IF rect.rows = {} THEN {raise("ValueError", 0, {})}
        ELSE IF missing # {} /\ strict
             THEN {raise("RuntimeError", Cardinality(missing), sample) :
                     sample \in sample_of(missing)}
        ELSE {[raised |-> "", n_missing |-> 0, sample |-> {},
               newF |-> newF, defs |-> <<<<new_node, T>>>>, removed |-> removed]}

\* The bases of extract_common_cube_once's loop that reach the return inside
\* the loop
common_cube_found(F, base) ==
    LET group == {c \in F : c \cap base # {}}
        cc    == common_cube(group)
    IN  Cardinality(group) >= 2 /\ cc # {}

\* What extract_common_cube_once returns when base is the first cube of
\* list(F) with a group of two or more cubes and a common cube
common_cube_at(F, base) ==
    LET group     == {c \in F : c \cap base # {}}
        cc        == common_cube(group)
        remainder == {c \ cc : c \in group}
    IN  [newF |-> (F \ group) \cup {cc \cup r : r \in remainder},
         changed |-> TRUE]

\* extract_common_cube_once(F): the set of possible results (cubes = list(F)
\* visits the cubes in an order the language does not fix)
extract_common_cube_once(F) ==
    IF Cardinality(F) < 2 THEN {[newF |-> F, changed |-> FALSE]}
    ELSE IF \E base \in F : common_cube_found(F, base)
    THEN {common_cube_at(F, base) : base \in {b \in F : common_cube_found(F, b)}}
    ELSE {[newF |-> F, changed |-> FALSE]}

\* A slip: a group without a common cube is let through
qualifies_without_common_cube(F, base) ==
    LET group     == {c \in F : c \cap base # {}}
        cc        == common_cube(group)
        remainder == {c \ cc : c \in group}
    IN  Cardinality(group) >= 2 /\ Cardinality(remainder) >= 2

\* The bases of extract_single_row_node_once's loop that reach the return
\* inside the loop
qualifies(F, base) ==
    LET group     == {c \in F : c \cap base # {}}
        cc        == common_cube(group)
        remainder == {c \ cc : c \in group}
    IN  Cardinality(group) >= 2 /\ cc # {} /\ Cardinality(remainder) >= 2

\* A slip: the counter is incremented before the name is made
single_row_at_late_name(F, base, node_prefix, id) ==
    LET group     == {c \in F : c \cap base # {}}
        cc        == common_cube(group)
        remainder == {c \ cc : c \in group}
        node      == NodeName(node_prefix, id + 1)
    IN  [newF |-> (F \ group) \cup {cc \cup {node}},
         new_defs |-> <<<<node, remainder>>>>, changed |-> TRUE, next_id |-> id + 1]

\* A slip: the common cube is left out of the rewritten cube
single_row_at_without_cc(F, base, node_prefix, id) ==
    LET group     == {c \in F : c \cap base # {}}
        cc        == common_cube(group)
        remainder == {c \ cc : c \in group}
        node      == NodeName(node_prefix, id)
    IN  [newF |-> (F \ group) \cup {{node}},
         new_defs |-> <<<<node, remainder>>>>, changed |-> TRUE, next_id |-> id + 1]

\* What extract_single_row_node_once returns when base is the first cube of
\* list(F) that qualifies
single_row_at(F, base, node_prefix, id) ==
    LET group     == {c \in F : c \cap base # {}}
        cc        == common_cube(group)
        remainder == {c \ cc : c \in group}
        node      == NodeName(node_prefix, id)
    IN  [newF |-> (F \ group) \cup {cc \cup {node}},
         new_defs |-> <<<<node, remainder>>>>, changed |-> TRUE, next_id |-> id + 1]

\* extract_single_row_node_once(F, node_prefix=..., next_id=...): the set of
\* possible results.  cubes = list(F) visits the cubes of the set F in an
\* order the language does not fix (it depends on the hash seed), so the
\* first qualifying base may be any qualifying cube.
extract_single_row_node_once(F, node_prefix, id) ==
    IF \E base \in F : qualifies(F, base)
    THEN {single_row_at(F, base, node_prefix, id) : base \in {b \in F : qualifies(F, b)}}
    ELSE {[newF |-> F, new_defs |-> EmptyDict, changed |-> FALSE, next_id |-> id]}

---------------------------------------------------------------------------
(* division.py *)

\* A slip: a cube goes to the quotient when it has some literal of d
divide_expression_some_literal(F, d) ==
    IF Cardinality(d) = 0 THEN [Q |-> F, R |-> {}]
    ELSE [Q |-> {c \ d : c \in {x \in F : d \cap x # {}}},
          R |-> {c \in F : d \cap c = {}}]

\* divide_expression(F, d): the pair (Q, R) as a record
divide_expression(F, d) ==
    IF Cardinality(d) = 0 THEN [Q |-> F, R |-> {}]
    ELSE [Q |-> {c \ d : c \in {x \in F : d \subseteq x}},
          R |-> {c \in F : ~(d \subseteq c)}]

multiply_cube_expr(d, Q) == {d \cup qc : qc \in Q}

add_expr(A, B) == A \cup B

---------------------------------------------------------------------------
(* synthesize.py: synthesize_by_rectangles as a state machine.  The steps of
   one iteration of the main loop (57-191) are actions at the positions
   "loop" (59), "matrix" (68), "enumerate" (76), "rects" (88), "score" (131);
   then "post" (195), "work" (202) and "return" (250).  The nested call at
   212 runs the same actions with the outer call suspended in `outer`. *)

\* The state as one value, so that the steps are operators on states
St == [F0 |-> F0, opts |-> opts, pc |-> pc, current_F |-> current_F,
       defs |-> defs, history |-> history, next_id |-> next_id, it |-> it,
       pairs |-> pairs, KM |-> KM, rects |-> rects, best |-> best, prof |-> prof,
       work |-> work, seen |-> seen, depth |-> depth, outer |-> outer]

Become(t) ==
    /\ F0' = t.F0 /\ opts' = t.opts /\ pc' = t.pc
    /\ current_F' = t.current_F /\ defs' = t.defs /\ history' = t.history
    /\ next_id' = t.next_id /\ it' = t.it
    /\ pairs' = t.pairs /\ KM' = t.KM /\ rects' = t.rects /\ best' = t.best
    /\ prof' = t.prof
    /\ work' = t.work /\ seen' = t.seen /\ depth' = t.depth /\ outer' = t.outer
    /\ UNCHANGED <<args, ret>>

\* 57: range(max_iters) is exhausted
loop_exhausted(s) ==
    IF s.pc = "loop" /\ s.it >= s.opts.max_iters
    THEN {[s EXCEPT !.pc = "post"]}
    ELSE {}

\* 59-65: pairs = kernels(current_F); break if there is none
extract_kernels(s) ==
    IF s.pc = "loop" /\ s.it < s.opts.max_iters
    THEN {[s EXCEPT !.pairs = p, !.pc = IF p = <<>> THEN "post" ELSE "matrix"] :
          p \in {kernels(s.current_F)}}
    ELSE {}

\* 68
build_matrix(s) ==
    IF s.pc = "matrix"
    THEN {[s EXCEPT !.KM = build_kernel_matrix(s.pairs), !.pc = "enumerate"]}
    ELSE {}

\* 76-81
enumerate(s) ==
    IF s.pc = "enumerate"
    THEN {[s EXCEPT !.rects = enumerate_closed_rectangles(
                                  s.KM, s.opts.min_rows, s.opts.min_cols,
                                  s.opts.max_rectangles),
                    !.pc = "rects"]}
    ELSE {}

\* 89-115 and 132-159: the fallback, then continue (changed) or break
fallback(s) ==
    {IF r.changed
     THEN [s EXCEPT !.history = Append(@, [iter |-> s.it, kind |-> "single_row",
                                          node |-> r.new_defs[1][1],
                                          node_expr_size |-> Cardinality(r.new_defs[1][2]),
                                          note |-> "single-row common-cube node extraction"]),
                    !.current_F = r.newF,
                    !.defs = DictUpdate(@, r.new_defs),
                    !.next_id = r.next_id,
                    !.it = @ + 1,
                    !.pc = "loop"]
     ELSE [s EXCEPT !.next_id = r.next_id, !.pc = "post"] :
     r \in extract_single_row_node_once(s.current_F, s.opts.node_prefix, s.next_id)}

\* 88: no rectangle
fallback_no_rects(s) ==
    IF s.pc = "rects" /\ s.rects = <<>> THEN fallback(s) ELSE {}

\* 119-125: best = best_rectangle(KM, rects), break if None; prof
score(s) ==
    IF s.pc = "rects" /\ s.rects # <<>>
    THEN {IF b = None
          THEN [s EXCEPT !.best = b, !.pc = "post"]
          ELSE [s EXCEPT !.best = b, !.prof = rectangle_profit(s.KM, b[1]),
                         !.pc = "score"] :
          b \in {best_rectangle(s.KM, s.rects)}}
    ELSE {}

\* A slip: a profit of zero is let through
rejected_below_zero(s) == s.opts.require_positive_profit /\ s.prof < 0

\* A slip: the flag require_positive_profit is never consulted
rejected_flag_ignored(s) == FALSE

\* 131: the condition "require_positive_profit and prof <= 0"
rejected(s) == s.opts.require_positive_profit /\ s.prof <= 0

\* 131-159: the best rectangle is rejected, try the fallback
fallback_non_positive(s) ==
    IF s.pc = "score" /\ rejected(s) THEN fallback(s) ELSE {}

\* 163-191: apply the best rectangle under a fresh name
apply_best(s) ==
    LET node_name == NodeName(s.opts.node_prefix, s.next_id)
    IN  IF s.pc = "score" /\ ~rejected(s)
        THEN {IF a.raised # ""
              THEN [s EXCEPT !.next_id = @ + 1, !.pc = "raised"]
              ELSE IF HasKey(s.defs, node_name)
              THEN [s EXCEPT !.next_id = @ + 1, !.pc = "raised"]
              ELSE [s EXCEPT !.next_id = @ + 1,
                             !.defs = DictUpdate(@, a.defs),
                             !.history = Append(@, [iter |-> s.it, node |-> node_name,
                                   profit |-> s.prof,
                                   nrows |-> nrows(s.best[1]), ncols |-> ncols(s.best[1]),
                                   covered_cubes |-> Cardinality(a.removed),
                                   node_cubes |-> Cardinality(DictGet(a.defs, node_name))]),
                             !.current_F = a.newF,
                             !.it = IF a.newF = {} THEN @ ELSE @ + 1,
                             !.pc = IF a.newF = {} THEN "post" ELSE "loop"] :
              a \in apply_rectangle_once(s.current_F, s.KM, s.best[1], node_name, FALSE)}
        ELSE {}

\* factor_defs of the running call: the nested call is made with False (220)
factor_defs_now(s) == s.opts.factor_defs /\ s.outer = None

\* 195-200
after_loop(s) ==
    IF s.pc = "post"
    THEN IF factor_defs_now(s) /\ s.defs # EmptyDict
         THEN {[s EXCEPT !.work = DictKeys(s.defs), !.seen = {}, !.depth = 0,
                         !.pc = "work"]}
         ELSE {[s EXCEPT !.pc = "return"]}
    ELSE {}

\* 202-224: one turn of the worklist loop up to the nested call, which starts
\* with start_id = next_id and its own current_F, defs, history and loop
worklist_turn(s) ==
    IF s.pc = "work"
    THEN IF s.work # <<>> /\ s.depth < s.opts.max_def_depth
         THEN LET name == Head(s.work)
              IN  IF name \in s.seen
                  THEN {[s EXCEPT !.work = Tail(@)]}
                  ELSE {[s EXCEPT !.work = Tail(@),
                                  !.seen = @ \cup {name},
                                  !.outer = <<[current_F |-> s.current_F, defs |-> s.defs,
                                              history |-> s.history, it |-> s.it,
                                              name |-> name]>>,
                                  !.current_F = DictGet(s.defs, name),
                                  !.defs = EmptyDict,
                                  !.history = <<>>,
                                  !.it = 0,
                                  !.pc = "loop"]}
         ELSE {[s EXCEPT !.pc = "return"]}
    ELSE {}

\* A slip: the nested definitions are merged but not put on the worklist
merge_nested_not_enqueued(acc, sub_defs, n) ==
    [defs |-> DictUpdate(acc.defs, sub_defs), work |-> acc.work, raised |-> FALSE]

RECURSIVE merge_nested(_, _, _)
\* 233-237 from item n of sub_res.defs: the outer defs and work, or a raise
merge_nested(acc, sub_defs, n) ==
    IF n > Len(sub_defs) \/ acc.raised THEN acc
    ELSE LET k == sub_defs[n][1]
             v == sub_defs[n][2]
         IN  IF HasKey(acc.defs, k)
             THEN [acc EXCEPT !.raised = TRUE]
             ELSE merge_nested([acc EXCEPT !.defs = DictSet(@, k, v),
                                           !.work = Append(@, k)],
                               sub_defs, n + 1)

\* 250: return; the nested call returns into 227-247 of the outer call
return(s) ==
    IF s.pc = "return"
    THEN IF s.outer = None
         THEN {[s EXCEPT !.pc = "done"]}
         ELSE {[s EXCEPT !.outer = None,
                         !.current_F = s.outer[1].current_F,
                         !.defs = merged.defs,
                         !.work = merged.work,
                         !.history = IF merged.raised \/ s.history = <<>>
                                     THEN s.outer[1].history
                                     ELSE Append(s.outer[1].history,
                                            [iter |-> None, node |-> s.outer[1].name,
                                             note |-> <<"factored definition",
                                                        Len(s.history)>>]),
                         !.depth = IF merged.raised THEN @ ELSE @ + 1,
                         !.it = s.outer[1].it,
                         !.pc = IF merged.raised THEN "raised" ELSE "work"] :
               merged \in {merge_nested(
                              [defs |-> DictSet(s.outer[1].defs, s.outer[1].name,
                                                s.current_F),
                               work |-> s.work, raised |-> FALSE],
                              s.defs, 1)}}
    ELSE {}

---------------------------------------------------------------------------
(* Inputs *)

MaxCubeLen == 2
MaxCubes == 4

Lits == {la, lb, lc, ld}
CubesUpTo(n) == {c \in SUBSET Lits : Cardinality(c) <= n}
ExprsUpTo(n, m) == {e \in SUBSET CubesUpTo(n) : Cardinality(e) <= m}

\* parse_sop("ab+ac+ad")
Example1 == {{la, lb}, {la, lc}, {la, ld}}
\* parse_sop("h+bfg+dfa+dfb+dfc+efa+efb+efc+dg+ge")
Example3 == {{lh}, {lb, lf, lg}, {ld, lf, la}, {ld, lf, lb}, {ld, lf, lc},
             {le, lf, la}, {le, lf, lb}, {le, lf, lc}, {ld, lg}, {lg, le}}
\* parse_sop("a1+a2+a3"), and an expression that uses a literal named t1
Digits123 == {{la, l1}, {la, l2}, {la, l3}}
UsesT1    == {{la, lt1}, {la, lb}, {la, lc}}

\* parse_sop("ab+cd+ef")
Example2 == {{la, lb}, {lc, ld}, {le, lf}}

Inputs ==
    ExprsUpTo(MaxCubeLen, MaxCubes)
    \cup {Example1, Example2, Example3, Digits123, UsesT1}

DefaultMaxIters == 50
DefaultMaxRectangles == 5000
DefaultMaxDefDepth == 10

\* synthesize.py:32-40, the defaults
DefaultOpts ==
    [node_prefix |-> lt, start_id |-> 1, max_iters |-> DefaultMaxIters,
     min_rows |-> 1, min_cols |-> 1, max_rectangles |-> DefaultMaxRectangles,
     factor_defs |-> TRUE, require_positive_profit |-> TRUE,
     max_def_depth |-> DefaultMaxDefDepth]

\* The calls made: the defaults, and the defaults with one or two options set
OptionSets ==
    {DefaultOpts,
     [DefaultOpts EXCEPT !.min_rows = 2],
     [DefaultOpts EXCEPT !.min_cols = 2],
     [DefaultOpts EXCEPT !.node_prefix = <<>>],
     [DefaultOpts EXCEPT !.start_id = 9],
     [DefaultOpts EXCEPT !.max_rectangles = 1],
     [DefaultOpts EXCEPT !.factor_defs = FALSE],
     [DefaultOpts EXCEPT !.max_iters = 1],
     [DefaultOpts EXCEPT !.max_def_depth = 1],
     [DefaultOpts EXCEPT !.require_positive_profit = FALSE],
     [DefaultOpts EXCEPT !.require_positive_profit = FALSE, !.max_iters = 2,
                         !.max_def_depth = 2]}

NoCall == <<>>
\* a local variable not assigned yet
Unset == <<>>

Init ==
    /\ F0 \in Inputs
    /\ opts \in OptionSets
    /\ pc = "loop"
    /\ current_F = F0
    /\ defs = EmptyDict
    /\ history = <<>>
    /\ next_id = opts.start_id
    /\ it = 0
    /\ pairs = <<>>
    /\ KM = Unset
    /\ rects = <<>>
    /\ best = None
    /\ prof = 0
    /\ work = <<>>
    /\ seen = {}
    /\ depth = 0
    /\ outer = None
    /\ args = NoCall
    /\ ret = NoCall

LoopExhausted       == \E t \in loop_exhausted(St) : Become(t)
ExtractKernels      == \E t \in extract_kernels(St) : Become(t)
BuildMatrix         == \E t \in build_matrix(St) : Become(t)
Enumerate           == \E t \in enumerate(St) : Become(t)
FallbackNoRects     == \E t \in fallback_no_rects(St) : Become(t)
Score               == \E t \in score(St) : Become(t)
FallbackNonPositive == \E t \in fallback_non_positive(St) : Become(t)
ApplyBest           == \E t \in apply_best(St) : Become(t)
AfterLoop           == \E t \in after_loop(St) : Become(t)
WorklistTurn        == \E t \in worklist_turn(St) : Become(t)
Return              == \E t \in return(St) : Become(t)

Next ==
    \/ LoopExhausted
    \/ ExtractKernels
    \/ BuildMatrix
    \/ Enumerate
    \/ FallbackNoRects
    \/ Score
    \/ FallbackNonPositive
    \/ ApplyBest
    \/ AfterLoop
    \/ WorklistTurn
    \/ Return

Spec == Init /\ [][Next]_vars

\* The caller keeps the result and makes the same call a second time
CallAgain ==
    /\ pc = "done" /\ ret = NoCall
    /\ ret' = <<[final_expr |-> current_F, defs |-> defs]>>
    /\ pc' = "loop" /\ current_F' = F0 /\ defs' = EmptyDict /\ history' = <<>>
    /\ next_id' = opts.start_id /\ it' = 0
    /\ pairs' = <<>> /\ KM' = Unset /\ rects' = <<>> /\ best' = None /\ prof' = 0
    /\ work' = <<>> /\ seen' = {} /\ depth' = 0 /\ outer' = None
    /\ UNCHANGED <<F0, opts, args>>

NextTwice == Next \/ CallAgain

SpecTwice == Init /\ [][NextTwice]_vars

---------------------------------------------------------------------------
(* Single calls of the library functions.  args holds the arguments of the
   call, ret what it returned (or raised); the variables of
   synthesize_by_rectangles are not in use. *)

driver_vars ==
    <<F0, opts, current_F, defs, history, next_id, it, pairs, KM, rects,
      best, prof, work, seen, depth, outer>>

Idle ==
    /\ F0 = {} /\ opts = DefaultOpts /\ current_F = {} /\ defs = EmptyDict
    /\ history = <<>> /\ next_id = 1 /\ it = 0 /\ pairs = <<>> /\ KM = Unset
    /\ rects = <<>> /\ best = None /\ prof = 0 /\ work = <<>> /\ seen = {}
    /\ depth = 0 /\ outer = None

Returned == pc = "returned"

\* kernels(F)
InitKernels ==
    /\ Idle /\ pc = "call" /\ ret = NoCall
    /\ args \in {[F |-> F] : F \in Inputs}

CallKernels ==
    /\ pc = "call"
    /\ ret' = kernels(args.F)
    /\ pc' = "returned"
    /\ UNCHANGED <<args, driver_vars>>

SpecKernels == InitKernels /\ [][CallKernels]_vars

\* build_kernel_matrix(pairs): lists of up to MaxPairs pairs, which may
\* repeat a co-kernel, a kernel or a whole pair
MaxPairs == 3
PairCos == {{}, {la}, {lb}, {la, lb}}
PairKernels == {{{}, {lb}}, {{lb}, {lc}}, {{la}, {lb}, {lc}}}
PairLists ==
    UNION {[1..n -> PairCos \X PairKernels] : n \in 0..MaxPairs}

InitMatrix ==
    /\ Idle /\ pc = "call" /\ ret = NoCall
    /\ args \in {[pairs |-> l] : l \in PairLists}

CallMatrix ==
    /\ pc = "call"
    /\ ret' = build_kernel_matrix(args.pairs)
    /\ pc' = "returned"
    /\ UNCHANGED <<args, driver_vars>>

SpecMatrix == InitMatrix /\ [][CallMatrix]_vars

\* enumerate_closed_rectangles(KM, min_rows, min_cols, max_rectangles) on
\* every relation between MaxRows rows and MaxCols columns
MaxRows == 3
MaxCols == 3
Relations == SUBSET ((1..MaxRows) \X (1..MaxCols))
RelationKM(ones) ==
    [rows |-> [i \in 1..MaxRows |-> {}], cols |-> [j \in 1..MaxCols |-> {{}}],
     ones |-> ones]

InitRect ==
    /\ Idle /\ pc = "call" /\ ret = NoCall
    /\ args \in {[km |-> RelationKM(ones), min_rows |-> r, min_cols |-> c,
                  max_rectangles |-> m] :
                    ones \in Relations, r \in 1..2, c \in 1..2, m \in {NoCap, 2}}

CallRect ==
    /\ pc = "call"
    /\ ret' = enumerate_closed_rectangles(args.km, args.min_rows, args.min_cols,
                                          args.max_rectangles)
    /\ pc' = "returned"
    /\ UNCHANGED <<args, driver_vars>>

SpecRect == InitRect /\ [][CallRect]_vars

\* apply_rectangle_once(F, KM, rect, new_node="t1", strict=...): the kernel
\* matrices of two expressions and a matrix of four rows and one column whose
\* full rectangle covers twelve cubes, with every rectangle of each (the
\* empty ones too) and expressions F that do and do not hold the covered
\* cubes
Square == {{la, lc}, {la, ld}, {lb, lc}, {lb, ld}}
WideKM ==
    [rows |-> <<{la}, {lb}, {lc}, {ld}>>, cols |-> <<{{le}, {lf}, {lg}}>>,
     ones |-> {<<1, 1>>, <<2, 1>>, <<3, 1>>, <<4, 1>>}]
ApplyCases ==
    {[km |-> build_kernel_matrix(kernels(G)), Fs |-> SUBSET G] :
        G \in {Example1, Square}}
    \cup {[km |-> WideKM, Fs |-> {{}, {{la, le}}, {{la, le}, {lb, lf}, {lh}}}]}

InitApply ==
    /\ Idle /\ pc = "call" /\ ret = NoCall
    /\ \E k \in ApplyCases :
          args \in {[F |-> F, km |-> k.km, rect |-> Rectangle(rs, cs),
                     new_node |-> lt1, strict |-> b] :
                       F \in k.Fs, rs \in SUBSET DOMAIN k.km.rows,
                       cs \in SUBSET DOMAIN k.km.cols, b \in BOOLEAN}

CallApply ==
    /\ pc = "call"
    /\ \E o \in apply_rectangle_once(args.F, args.km, args.rect, args.new_node,
                                     args.strict) : ret' = o
    /\ pc' = "returned"
    /\ UNCHANGED <<args, driver_vars>>

SpecApply == InitApply /\ [][CallApply]_vars

\* divide_expression(F, d), then add_expr(multiply_cube_expr(d, Q), R) as in
\* test_division.py
InitDivision ==
    /\ Idle /\ pc = "call" /\ ret = NoCall
    /\ args \in {[F |-> F, d |-> d] : F \in Inputs, d \in CubesUpTo(MaxCubeLen)}

CallDivide ==
    /\ pc = "call"
    /\ ret' = divide_expression(args.F, args.d)
    /\ pc' = "divided"
    /\ UNCHANGED <<args, driver_vars>>

CallRecompose ==
    /\ pc = "divided"
    /\ ret' = [Q |-> ret.Q, R |-> ret.R,
               recon |-> add_expr(multiply_cube_expr(args.d, ret.Q), ret.R)]
    /\ pc' = "returned"
    /\ UNCHANGED <<args, driver_vars>>

NextDivision == CallDivide \/ CallRecompose

SpecDivision == InitDivision /\ [][NextDivision]_vars

\* rectangle_profit(KM, rect), then apply_rectangle_once(F, KM, rect,
\* new_node="t1"), for KM = build_kernel_matrix(kernels(F)) and every
\* rectangle enumerated from KM without a cap
InitProfit ==
    /\ Idle /\ pc = "call" /\ ret = NoCall
    /\ \E F \in {G \in Inputs : lt1 \notin Literals(G)} :
          \E km \in {build_kernel_matrix(kernels(F))} :
              args \in {[F |-> F, km |-> km, rect |-> r, new_node |-> lt1] :
                           r \in Range(enumerate_closed_rectangles(km, 1, 1, NoCap))}

CallProfit ==
    /\ pc = "call"
    /\ ret' = [profit |-> rectangle_profit(args.km, args.rect)]
    /\ pc' = "scored"
    /\ UNCHANGED <<args, driver_vars>>

CallApplyScored ==
    /\ pc = "scored"
    /\ \E o \in apply_rectangle_once(args.F, args.km, args.rect, args.new_node,
                                     FALSE) :
          ret' = [profit |-> ret.profit, raised |-> o.raised, newF |-> o.newF,
                  defs |-> o.defs, removed |-> o.removed]
    /\ pc' = "returned"
    /\ UNCHANGED <<args, driver_vars>>

NextProfit == CallProfit \/ CallApplyScored

SpecProfit == InitProfit /\ [][NextProfit]_vars

\* extract_common_cube_once(F)
InitCommonCube ==
    /\ Idle /\ pc = "call" /\ ret = NoCall
    /\ args \in {[F |-> F] : F \in Inputs}

CallCommonCube ==
    /\ pc = "call"
    /\ ret' \in extract_common_cube_once(args.F)
    /\ pc' = "returned"
    /\ UNCHANGED <<args, driver_vars>>

SpecCommonCube == InitCommonCube /\ [][CallCommonCube]_vars

---------------------------------------------------------------------------
(* Properties of synthesize_by_rectangles (under Spec) *)

Done == pc = "done"

\* the keys of the definition table
DefNames == Range(DictKeys(defs))

\* literals of the final expression plus literals of every definition
TotalLiterals ==
    _lit_cost_expr(current_F)
    + SumOver(DOMAIN defs, [n \in DOMAIN defs |-> _lit_cost_expr(defs[n][2])])

\* C1: across one full call with factor_defs=True the generated node names
\* are pairwise distinct (each of the next_id - start_id names handed out is
\* a key of its own in the table), none of them is a literal of the input F,
\* and the node-name-collision error is never raised.
C1_NoCollision ==
    /\ pc # "raised"
    /\ (Done /\ opts.factor_defs) =>
          /\ Cardinality(DefNames) = next_id - opts.start_id
          /\ DefNames \cap Literals(F0) = {}

\* The part of C1 that holds: the names are pairwise distinct and the
\* collision error is never raised.
C1_DistinctNames ==
    /\ pc # "raised"
    /\ Done => Cardinality(DefNames) = next_id - opts.start_id

\* C3: on h+bfg+dfa+dfb+dfc+efa+efb+efc+dg+ge with the default options, no
\* loop of the call runs out of its max_iters iterations (the loop is left
\* by a break), and the result has fewer than 28 literals in all.
C3_Example3 ==
    (F0 = Example3 /\ opts = DefaultOpts) =>
        /\ pc = "loop" => it < DefaultMaxIters
        /\ Done => TotalLiterals < 28

C3_Witness ==
    /\ F0 = Example3 /\ opts = DefaultOpts /\ Done
    /\ it < DefaultMaxIters /\ TotalLiterals = 14 /\ Len(defs) = 3

\* the history records of the running call and of the suspended outer call
AllHistory ==
    Range(history) \cup (IF outer = None THEN {} ELSE Range(outer[1].history))

\* C7: with require_positive_profit=True every history record that carries
\* a profit has profit > 0.
C7_PositiveProfit ==
    opts.require_positive_profit =>
        \A h \in AllHistory : "profit" \in DOMAIN h => h.profit > 0

C7_Witness ==
    /\ opts.require_positive_profit
    /\ \E h \in Range(history) : "profit" \in DOMAIN h /\ h.profit > 0
    /\ \E h \in Range(history) : "kind" \in DOMAIN h

\* C9: the result is a function of F and the options: whatever order the
\* cubes of a set are visited in, a call returns the same final expression
\* and the same definition table, so a second call with the same arguments
\* returns what the first call returned.  (Under SpecTwice.)
C9_Deterministic ==
    (Done /\ ret # NoCall) =>
        ret[1] = [final_expr |-> current_F, defs |-> defs]

\* C10: ab+ac+ad with prefix t and start id 1 (and positive profit required,
\* as by default) returns the single cube {a, t1} and the one definition
\* t1 = b+c+d.
C10_Example1 ==
    (/\ F0 = Example1 /\ opts.node_prefix = lt /\ opts.start_id = 1
     /\ opts.require_positive_profit /\ Done) =>
        /\ current_F = {{la, lt1}}
        /\ defs = <<<<lt1, {{lb}, {lc}, {ld}}>>>>

C10_Witness ==
    /\ F0 = Example1 /\ opts = DefaultOpts /\ Done
    /\ current_F = {{la, lt1}}
    /\ Len(history) = 1

---------------------------------------------------------------------------
(* Properties of apply_rectangle_once (under SpecApply) *)

\* the cubes co + t a rectangle stands for, and those of them F lacks
Covered ==
    {args.km.rows[i] \cup t : i \in args.rect.rows,
                              t \in UNION {args.km.cols[j] : j \in args.rect.cols}}
Missing == Covered \ args.F
NonEmptyRect == args.rect.rows # {} /\ args.rect.cols # {}

\* {co + t : co a selected row, t a cube of the returned definition T}
Substituted ==
    {args.km.rows[i] \cup t : i \in args.rect.rows,
                              t \in DictGet(ret.defs, args.new_node)}

\* C2 as stated: in non-strict mode on a rectangle with a row and a column,
\* every removed cube is co + t for a selected row co and a cube t of the
\* returned T, and the cubes co + t are exactly the removed cubes.
C2_ReconstructsRemoved ==
    (Returned /\ ~args.strict /\ NonEmptyRect) =>
        /\ ret.removed \subseteq Substituted
        /\ Substituted = ret.removed

\* C2 as the code has it: every removed cube is co + t for a selected row co
\* and a cube t of the returned T; the cubes co + t that are in F are exactly
\* the removed cubes; and the cubes co + t are exactly the removed cubes
\* when, and only when, F holds every one of them.
C2_ReconstructsWithinF ==
    (Returned /\ ~args.strict /\ NonEmptyRect) =>
        /\ ret.removed \subseteq Substituted
        /\ Substituted \cap args.F = ret.removed
        /\ (Substituted = ret.removed) <=> (Missing = {})

C2_Witness ==
    /\ Returned /\ ~args.strict /\ NonEmptyRect
    /\ ret.removed # {} /\ Missing # {} /\ Substituted # ret.removed

\* C8: the call fails with ValueError on a rectangle without rows or without
\* columns; with strict=True the failure over missing cubes (RuntimeError)
\* happens exactly when a covered cube is not in F, and carries the number
\* of missing cubes and at most ten of them; with strict=False a rectangle
\* with a row and a column never fails, and what leaves F is covered cubes
\* that were in F.
C8_Errors ==
    Returned =>
        /\ ~NonEmptyRect => ret.raised = "ValueError"
        /\ args.strict =>
              /\ ret.raised = "RuntimeError" <=> Missing # {}
              /\ ret.raised # "" <=> (~NonEmptyRect \/ Missing # {})
              /\ ret.raised = "RuntimeError" =>
                    /\ ret.n_missing = Cardinality(Missing)
                    /\ ret.sample \subseteq Missing
                    /\ ret.sample # {}
                    /\ Cardinality(ret.sample) <= 10
        /\ (~args.strict /\ NonEmptyRect) =>
              /\ ret.raised = ""
              /\ ret.removed = Covered \cap args.F
              /\ args.F \ ret.newF \subseteq Covered \cap args.F

C8_Witness ==
    /\ Returned /\ args.strict /\ ret.raised = "RuntimeError"
    /\ ret.n_missing = 12 /\ Cardinality(ret.sample) = 10

---------------------------------------------------------------------------
(* Properties of enumerate_closed_rectangles (under SpecRect) *)

\* C4: every rectangle returned is all-ones (each of its rows is related to
\* each of its columns) and column-maximal (no column outside it is related
\* to all of its rows).
C4_ClosedRectangles ==
    Returned =>
        \A n \in DOMAIN ret :
            /\ \A i \in ret[n].rows, j \in ret[n].cols : <<i, j>> \in args.km.ones
            /\ \A j \in DOMAIN args.km.cols \ ret[n].cols :
                   ~(ret[n].rows \subseteq {i \in DOMAIN args.km.rows :
                                                <<i, j>> \in args.km.ones})

C4_Witness ==
    /\ Returned /\ Len(ret) >= 2
    /\ \E n \in DOMAIN ret :
          /\ Cardinality(ret[n].rows) = 2 /\ Cardinality(ret[n].cols) = 2
          /\ \E o \in args.km.ones : o[1] \in ret[n].rows /\ o[2] \notin ret[n].cols

---------------------------------------------------------------------------
(* Properties of kernels (under SpecKernels) *)

\* C5: every pair (co, k) returned by kernels(F) has a cube-free kernel k:
\* no literal belongs to all cubes of k.
C5_CubeFreeKernels ==
    Returned =>
        \A n \in DOMAIN ret :
            /\ ret[n][2] # {}
            /\ ~ \E l \in Literals(ret[n][2]) : \A c \in ret[n][2] : l \in c

C5_Witness ==
    /\ Returned /\ Len(ret) >= 3
    /\ \E n \in DOMAIN ret : ret[n][1] # {} /\ Cardinality(ret[n][2]) >= 2

---------------------------------------------------------------------------
(* Properties of build_kernel_matrix (under SpecMatrix) *)

\* the key (size, literals) rows are sorted by
RowKey(c) == <<Cardinality(c), canon_cube(c)>>
RowKeyLessEq(k, l) ==
    \/ k[1] < l[1]
    \/ k[1] = l[1] /\ (k[2] = l[2] \/ TupLess(k[2], l[2]))

\* C6: each input pair (co, k) is in the sparse relation as
\* (row_index[co], col_index[canonical(k)]), and these indexes are the places
\* of co among the rows and of a kernel with k's canonical form among the
\* columns; the relation has no other entry; there is a row for each
\* distinct co-kernel and a column for each distinct canonical kernel; and
\* rows are sorted by (size, literals).
C6_MatrixConsistent ==
    Returned =>
        LET P == Range(args.pairs)
        IN  /\ \A p \in P :
                  /\ <<ret.row_index[p[1]], ret.col_index[canon_expr(p[2])]>>
                         \in ret.ones
                  /\ ret.rows[ret.row_index[p[1]]] = p[1]
                  /\ canon_expr(ret.cols[ret.col_index[canon_expr(p[2])]])
                         = canon_expr(p[2])
            /\ \A o \in ret.ones :
                  \E p \in P : o = <<ret.row_index[p[1]],
                                     ret.col_index[canon_expr(p[2])]>>
            /\ Len(ret.rows) = Cardinality({p[1] : p \in P})
            /\ Len(ret.cols) = Cardinality({canon_expr(p[2]) : p \in P})
            /\ \A i, j \in DOMAIN ret.rows :
                  i < j => RowKeyLessEq(RowKey(ret.rows[i]), RowKey(ret.rows[j]))

C6_Witness ==
    /\ Returned /\ Len(args.pairs) = 3
    /\ Len(ret.rows) = 2 /\ Len(ret.cols) = 2 /\ Cardinality(ret.ones) = 3

---------------------------------------------------------------------------
(* Further properties of synthesize_by_rectangles (under Spec) *)

\* the cubes of F pairwise share no literal
PairwiseDisjoint(F) == \A c, d \in F : c # d => c \cap d = {}

\* C11: on ab+cd+ef, and on every F whose cubes pairwise share no literal,
\* a call that requires positive profit (as by default) scores no rectangle
\* with positive profit, its fallback changes nothing, and it returns F with
\* an empty definition table and an empty history.
C11_DisjointUnchanged ==
    (PairwiseDisjoint(F0) /\ opts.require_positive_profit) =>
        /\ pc # "raised"
        /\ current_F = F0 /\ defs = EmptyDict /\ history = <<>>
        /\ next_id = opts.start_id
        /\ pc = "score" => prof <= 0
        /\ pc \in {"rects", "score"} =>
              \A r \in extract_single_row_node_once(current_F, opts.node_prefix,
                                                    next_id) : ~r.changed

C11_Witness ==
    /\ F0 = Example2 /\ opts = DefaultOpts /\ Done
    /\ prof < 0 /\ current_F = Example2 /\ defs = EmptyDict /\ history = <<>>

\* literals of the definitions of a table
DefsLiterals(d) == SumOver(DOMAIN d, [n \in DOMAIN d |-> _lit_cost_expr(d[n][2])])

\* the total literal count of the outermost call: its expression and all its
\* definitions, where the definition a nested call is re-factoring counts in
\* its current form (the nested call's expression and definitions)
TotalAll ==
    IF outer = None THEN _lit_cost_expr(current_F) + DefsLiterals(defs)
    ELSE _lit_cost_expr(outer[1].current_F) + DefsLiterals(outer[1].defs)
         - _lit_cost_expr(DictGet(outer[1].defs, outer[1].name))
         + _lit_cost_expr(current_F) + DefsLiterals(defs)

\* the step applies the best rectangle
RectangleApplied == pc = "score" /\ ~rejected(St) /\ pc' # "raised"

\* C16: with require_positive_profit=True the total literal count never
\* increases in a step of the call: applying a rectangle strictly lowers it,
\* a fallback extraction (and every other step) leaves it equal or lower,
\* and the total of the result is at most the literal count of the input F.
C16_NeverIncreases ==
    [][opts.require_positive_profit =>
          /\ TotalAll' <= TotalAll
          /\ RectangleApplied => TotalAll' < TotalAll
          /\ pc' = "done" => TotalAll' <= _lit_cost_expr(F0)]_vars

C16_Witness ==
    /\ opts.require_positive_profit /\ Done
    /\ \E h \in Range(history) : "profit" \in DOMAIN h
    /\ \E h \in Range(history) : "kind" \in DOMAIN h
    /\ TotalLiterals < _lit_cost_expr(F0)

\* what an iteration of the main loop may change
LoopState == <<current_F, defs, history, next_id>>

\* the step is in an iteration of the main loop (57-191)
InIteration ==
    \/ pc = "loop" /\ it < opts.max_iters
    \/ pc \in {"matrix", "enumerate", "rects", "score"}

\* the position where the fallback is attempted: no rectangle was
\* enumerated, or positive profit is required and the best profit is <= 0
FallbackDue ==
    \/ pc = "rects" /\ rects = <<>>
    \/ pc = "score" /\ opts.require_positive_profit /\ prof <= 0

\* the step creates exactly one node, named by the counter, with one history
\* record for it, and the loop goes on to its next iteration
OneNodeCreated ==
    LET name == NodeName(opts.node_prefix, next_id)
    IN  /\ ~HasKey(defs, name)
        /\ Len(defs') = Len(defs) + 1 /\ defs'[Len(defs')][1] = name
        /\ \A n \in DOMAIN defs : defs'[n] = defs[n]
        /\ next_id' = next_id + 1
        /\ Len(history') = Len(history) + 1
        /\ \A n \in DOMAIN history : history'[n] = history[n]
        /\ history'[Len(history')].node = name
        /\ history'[Len(history')].iter = it
        /\ pc' = "loop" /\ it' = it + 1

\* C17: every iteration of the main loop creates exactly one node or ends
\* the loop.  It ends with nothing changed when kernels gives no pair.  The
\* fallback is attempted only when no rectangle was enumerated, or when
\* positive profit is required and the best profit is <= 0; the loop goes
\* on after it if and only if it changed the expression.  Otherwise the best
\* rectangle is applied under a name that is not yet in the table, its
\* definition is merged and one history record (with the profit) appended.
\* Steps in between change nothing.
C17_IterationShape ==
    [][InIteration =>
          /\ (pc = "loop" /\ kernels(current_F) = <<>>) =>
                pc' = "post" /\ UNCHANGED LoopState
          /\ (pc = "loop" /\ kernels(current_F) # <<>>) =>
                pc' = "matrix" /\ UNCHANGED LoopState
          /\ (pc \in {"matrix", "enumerate"} \/ (pc = "rects" /\ rects # <<>>)) =>
                pc' \in {"enumerate", "rects", "score"} /\ UNCHANGED LoopState
          /\ FallbackDue =>
                /\ (pc' = "loop") <=> (current_F' # current_F)
                /\ pc' = "loop" =>
                      /\ OneNodeCreated
                      /\ "kind" \in DOMAIN history'[Len(history')]
                      /\ history'[Len(history')].kind = "single_row"
                /\ pc' # "loop" => pc' = "post" /\ UNCHANGED LoopState
          /\ (pc = "score" /\ ~FallbackDue) =>
                /\ OneNodeCreated
                /\ "profit" \in DOMAIN history'[Len(history')]
                /\ history'[Len(history')].profit = prof
                /\ defs'[Len(defs')][2] =
                       UNION {KM.cols[j] : j \in best[1].cols}]_vars

C17_Witness ==
    /\ pc = "post" /\ outer = None
    /\ it = Len(defs) /\ it = Len(history) /\ it >= 2
    /\ \E h \in Range(history) : "profit" \in DOMAIN h
    /\ \E h \in Range(history) : "kind" \in DOMAIN h

\* number of definitions the suspended outer call held when it made the
\* nested call: the nested call started with start_id = opts.start_id + this
OuterDefs == IF outer = None THEN 0 ELSE Len(outer[1].defs)

\* C18: the node-id counter is threaded without gaps or reuse.  At the
\* return of a call (the outermost one, and a nested one counted from the
\* start_id it was given) next_id minus start_id is the number of entries
\* of the definition table and the names of the table are exactly
\* node_prefix followed by i for start_id <= i < next_id; a fallback call
\* that reports changed=False returns next_id as it got it and no
\* definition (and one that reports changed=True returns next_id + 1 and
\* the one definition named by next_id).
C18_CounterThreaded ==
    /\ pc \in {"return", "done"} =>
          /\ OuterDefs + Len(defs) = next_id - opts.start_id
          /\ DefNames = {NodeName(opts.node_prefix, i) :
                            i \in (opts.start_id + OuterDefs)..(next_id - 1)}
          /\ Cardinality(DefNames) = Len(defs)
    /\ FallbackDue =>
          \A r \in extract_single_row_node_once(current_F, opts.node_prefix,
                                                next_id) :
              IF r.changed
              THEN /\ r.next_id = next_id + 1
                   /\ DictKeys(r.new_defs) =
                          <<NodeName(opts.node_prefix, next_id)>>
              ELSE /\ r.next_id = next_id
                   /\ r.new_defs = EmptyDict
                   /\ r.newF = current_F

C18_Witness ==
    /\ Done /\ opts.start_id = 9 /\ next_id = 12 /\ Len(defs) = 3
    /\ DefNames = {NodeName(lt, 9), NodeName(lt, 10), NodeName(lt, 11)}
    /\ NodeName(lt, 10) = <<116, 49, 48>>

\* KM and rects are those of the expression current_F
MatrixBuilt == pc \in {"enumerate", "rects", "score"}
RectsEnumerated == pc \in {"rects", "score"}

\* C19: in the matrix built from kernels(F) each row is related to exactly
\* one column, so there are as many sparse entries as rows; the DFS never
\* goes from a seed column on to a second column; every rectangle
\* enumerated has exactly one column; and none is returned when
\* min_cols >= 2.
C19_OneColumnPerRow ==
    /\ MatrixBuilt =>
          /\ \A i \in DOMAIN KM.rows :
                 Cardinality({o \in KM.ones : o[1] = i}) = 1
          /\ Cardinality(KM.ones) = Len(KM.rows)
          /\ \A j \in DOMAIN KM.cols :
                 /\ _build_col_rows(KM)[j] # {}
                 /\ ~extends_seed(_build_col_rows(KM), j)
    /\ RectsEnumerated =>
          /\ \A n \in DOMAIN rects : ncols(rects[n]) = 1
          /\ opts.min_cols >= 2 => rects = <<>>

C19_Witness ==
    /\ pc = "rects" /\ Len(KM.cols) >= 3 /\ Len(KM.rows) > Len(KM.cols)
    /\ Len(rects) >= 3
    /\ \E n \in DOMAIN rects : nrows(rects[n]) >= 2

\* a nested call is running
Nested == outer # None

\* the worklist (202-247) has been set up
InWorklist == pc \in {"work", "return", "done"} \/ Nested

\* between steps: the names taken from the worklist so far are those of the
\* nested calls made, max_def_depth at most; a nested call never comes to
\* the worklist of its own; and when all is done and no more than
\* max_def_depth nodes were created, every definition was taken
WorklistState ==
    /\ (opts.factor_defs /\ InWorklist /\ Len(DictKeys(IF Nested THEN outer[1].defs ELSE defs)) > 0) =>
          /\ depth <= opts.max_def_depth
          /\ Cardinality(seen) = depth + (IF Nested THEN 1 ELSE 0)
          /\ Nested => outer[1].name \in seen /\ depth < opts.max_def_depth
    /\ Nested => pc # "work" /\ opts.factor_defs
    /\ (Done /\ opts.factor_defs /\ Len(defs) <= opts.max_def_depth) =>
          seen = DefNames /\ depth = Len(defs)
    /\ (Done /\ ~opts.factor_defs) => seen = {} /\ depth = 0

\* in a step: a nested call is made for a name not taken before, on that
\* name's definition, with nothing re-factored inside it; at its return
\* the name's definition is replaced, the names it created are merged into
\* the table and put on the worklist; a name once taken stays taken
WorklistStep ==
    /\ (pc = "work" /\ pc' = "loop") =>
          /\ Nested' /\ ~Nested
          /\ outer'[1].name = Head(work) /\ Head(work) \notin seen
          /\ seen' = seen \cup {Head(work)}
          /\ depth < opts.max_def_depth /\ depth' = depth
          /\ current_F' = DictGet(defs, Head(work))
          /\ defs' = EmptyDict /\ next_id' = next_id
    /\ (pc = "work" /\ pc' = "work") =>
          Head(work) \in seen /\ seen' = seen /\ depth' = depth /\ defs' = defs
    /\ (Nested /\ pc = "post") => pc' = "return" /\ defs' = defs
    /\ (Nested /\ pc = "return") =>
          /\ pc' = "work" /\ ~Nested' /\ depth' = depth + 1
          /\ next_id' = next_id
          /\ DictGet(defs', outer[1].name) = current_F
          /\ \A n \in DOMAIN outer[1].defs :
                 outer[1].defs[n][1] # outer[1].name => defs'[n] = outer[1].defs[n]
          /\ Len(defs') = Len(outer[1].defs) + Len(defs)
          /\ \A n \in DOMAIN defs :
                 /\ HasKey(defs', defs[n][1])
                 /\ DictGet(defs', defs[n][1]) = defs[n][2]
                 /\ defs[n][1] \in Range(work')
                 /\ defs[n][1] \notin seen
    /\ InWorklist => seen \subseteq seen'

\* C20: with factor_defs=True the worklist re-factors each node name at
\* most once and at most max_def_depth names in all, every nested call runs
\* with re-factoring disabled, and the names a nested call created are
\* merged into the table and enqueued; when no more than max_def_depth
\* nodes were created in all, every definition of the returned table has
\* been through the pipeline exactly once.
C20_Worklist == []WorklistState /\ [][WorklistStep]_vars

C20_Witness ==
    /\ Done /\ opts.factor_defs /\ Len(defs) = 3 /\ opts.max_def_depth >= 3
    /\ seen = DefNames /\ depth = 3
    /\ \E h \in Range(history) : h.iter = None

---------------------------------------------------------------------------
(* Properties of divide_expression (under SpecDivision) *)

\* C12: for every F and every cube d, the empty cube included, with
\* (Q, R) = divide_expression(F, d) the expression
\* add_expr(multiply_cube_expr(d, Q), R) is F, as a set of cubes.
C12_DivisionRoundTrip ==
    Returned => ret.recon = args.F

C12_Witness ==
    /\ Returned /\ args.d # {} /\ ret.Q # {} /\ ret.R # {}
    /\ ret.Q # {c \in args.F : args.d \subseteq c}

\* Each cube of e that has a node literal, with one such literal replaced by
\* its definition in d and the product multiplied out
substitute(e, d) ==
    LET names == Range(DictKeys(d))
    IN  UNION {IF c \cap names = {} THEN {c}
               ELSE LET n == CHOOSE x \in c \cap names : TRUE
                    IN  {(c \ {n}) \cup t : t \in DictGet(d, n)} : c \in e}

RECURSIVE expand(_, _)
\* e with node literals replaced by their definitions until none is left
expand(e, d) ==
    IF Literals(e) \cap Range(DictKeys(d)) = {} THEN e
    ELSE expand(substitute(e, d), d)

\* C13: for every input F none of whose literals is a generated node name,
\* and for any options, replacing the node literals of the returned final
\* expression by their definitions, again and again, and multiplying out
\* gives exactly the cubes of F.
C13_SumOfProductsPreserved ==
    (Done /\ Literals(F0) \cap DefNames = {}) =>
        expand(current_F, defs) = F0

C13_Witness ==
    /\ Done /\ Literals(F0) \cap DefNames = {}
    /\ Len(defs) >= 3 /\ current_F # F0
    /\ \E n \in DOMAIN defs : Literals(defs[n][2]) \cap DefNames # {}
    /\ Len(history) >= 3

---------------------------------------------------------------------------
(* Further properties of kernels (under SpecKernels) *)

\* no literal belongs to all cubes of Q
CubeFree(Q) == ~ \E l \in Literals(Q) : \A c \in Q : l \in c

\* the pairs (co, Q) with Q the quotient of F by co, Q cube-free, and co the
\* empty cube and F non-empty, or Q of two cubes or more
CubeFreeQuotients(F) ==
    {p \in {<<co, divide_expression(F, co).Q>> : co \in SUBSET Literals(F)} :
        /\ CubeFree(p[2])
        /\ (p[1] = {} /\ F # {}) \/ Cardinality(p[2]) >= 2}

\* C14: kernels(F) returns exactly the cube-free quotients of F, with at
\* most one pair per co-kernel and no pair twice.
C14_KernelsAreQuotients ==
    Returned =>
        /\ Range(ret) = CubeFreeQuotients(args.F)
        /\ \A m, n \in DOMAIN ret : m # n => ret[m][1] # ret[n][1]

C14_Witness ==
    /\ Returned /\ Len(ret) >= 4
    /\ \E n \in DOMAIN ret : Cardinality(ret[n][1]) = 2
    /\ \E co \in SUBSET Literals(args.F) :
          /\ Cardinality(divide_expression(args.F, co).Q) >= 2
          /\ ~CubeFree(divide_expression(args.F, co).Q)

---------------------------------------------------------------------------
(* Properties of rectangle_profit (under SpecProfit) *)

\* literals(F) - (literals(newF) + literals(definition of the new node))
Savings ==
    _lit_cost_expr(args.F)
    - (_lit_cost_expr(ret.newF) + _lit_cost_expr(DictGet(ret.defs, args.new_node)))

\* C15: for KM built from kernels(F) and a rectangle enumerated from KM,
\* rectangle_profit(KM, rect) is the number of literals the extraction
\* saves: literals(F) minus literals(newF) plus literals(definition), for
\* the newF and definition apply_rectangle_once returns.
C15_ProfitIsSavings ==
    (Returned /\ ret.raised = "") => ret.profit = Savings

\* What holds instead: the profit charges one literal per cube of T and
\* none per row, the extraction costs one per row and none per cube of T.
C15_ProfitOffByShape ==
    (Returned /\ ret.raised = "") =>
        ret.profit = Savings + Cardinality(args.rect.rows)
                             - Cardinality(DictGet(ret.defs, args.new_node))

---------------------------------------------------------------------------
(* Properties of extract_common_cube_once (under SpecCommonCube) *)

\* C21: extract_common_cube_once(F) reports changed=True only when it
\* rewrote the expression: when changed is True the returned expression
\* differs from F as a set of cubes, and when changed is False it equals F.
C21_ChangedMeansRewritten ==
    Returned =>
        /\ ret.changed => ret.newF # args.F
        /\ ~ret.changed => ret.newF = args.F

\* C21, what the code does: the returned expression is F whatever the flag
\* says (cc * (c - cc) is c again for every cube of the group), and the
\* flag says that some cube has a group of two or more cubes with a common
\* literal.
C21_SameCubesEitherWay ==
    Returned =>
        /\ ret.newF = args.F
        /\ ret.changed <=>
               \E base \in args.F : \E l \in base :
                   /\ Cardinality({c \in args.F : c \cap base # {}}) >= 2
                   /\ \A c \in args.F : c \cap base # {} => l \in c

\* a call that reported changed=True, on ab+ac
C21_Witness ==
    /\ Returned /\ args.F = {{la, lb}, {la, lc}}
    /\ ret.changed /\ ret.newF = args.F


===========================================================================
